---------------------------- MODULE Spec2Model ----------------------------
(***************************************************************************)
(* Transaction log of the key-value store (src/main.go).                   *)
(*                                                                         *)
(* Strings are sequences of one-character strings, so that the record      *)
(* layout written by fmt.Fprintf and the parse done by fmt.Sscanf are      *)
(* computed character by character.                                        *)
(***************************************************************************)
EXTENDS Integers, Sequences, FiniteSets, TLC

(***************************************************************************)
(* Bounds of the model.                                                    *)
(***************************************************************************)
MaxCalls == 2
MaxCallsBP == 9
MaxLines == 3

(***************************************************************************)
(* Program constants.                                                      *)
(***************************************************************************)
EventDelete == 1
EventPut == 2
QueueCap == 16
ErrCap == 1
\* A channel made without a buffer.
Unbuffered == Len(<<>>)

OutErrorCap == 1
Uint8Max == 255

Producers == {1, 2}

(***************************************************************************)
(* Keys and values the producers use.                                      *)
(***************************************************************************)
Foo == <<"f", "o", "o">>
Bar == <<"b", "a", "r">>
Keys == {Foo}
Values == {Bar}

NoError == "nil"

Event(t, k, v) == [Sequence |-> 0, EventType |-> t, Key |-> k, Value |-> v]

(***************************************************************************)
(* The store: Put, Delete on a map from keys to values.                    *)
(***************************************************************************)
EmptyMap == [k \in {} |-> <<>>]

Put(m, key, value) == [k \in DOMAIN m \cup {key} |-> IF k = key THEN value ELSE m[k]]

Delete(m, key) == [k \in DOMAIN m \ {key} |-> m[k]]

(***************************************************************************)
(* fmt.Fprintf(l.file, "%d\t%d\t%s\t%s\n", ...): decimal digits, tabs,     *)
(* the key and the value unescaped, a newline.                             *)
(***************************************************************************)
Digits == <<"0", "1", "2", "3", "4", "5", "6", "7", "8", "9">>

RECURSIVE FormatUint(_)
FormatUint(n) ==
    IF n < 10 THEN <<Digits[n + 1]>>
    ELSE FormatUint(n \div 10) \o <<Digits[(n % 10) + 1]>>

Fprintf(seq, t, key, value) ==
    FormatUint(seq) \o <<"\t">> \o FormatUint(t) \o <<"\t">> \o key \o <<"\t">>
        \o value \o <<"\n">>

(***************************************************************************)
(* bufio.ScanLines: the text up to the first newline, without it and       *)
(* without a trailing carriage return; the rest of the text after it.      *)
(***************************************************************************)
HasNewline(s) == \E i \in 1..Len(s) : s[i] = "\n"

NewlineAt(s) == CHOOSE i \in 1..Len(s) : s[i] = "\n" /\ \A j \in 1..(i - 1) : s[j] # "\n"

DropCR(s) == IF Len(s) > 0 /\ s[Len(s)] = "\r" THEN SubSeq(s, 1, Len(s) - 1) ELSE s

ScanToken(s) == IF HasNewline(s) THEN DropCR(SubSeq(s, 1, NewlineAt(s) - 1)) ELSE DropCR(s)

ScanRest(s) == IF HasNewline(s) THEN SubSeq(s, NewlineAt(s) + 1, Len(s)) ELSE <<>>

(***************************************************************************)
(* fmt.Sscanf(line, "%d\t%d\t%s\t%s", &e.Sequence, &e.EventType, &e.Key,   *)
(* &e.Value).  Every verb first skips spaces and fails at the end of the   *)
(* input; white space in the format matches one or more spaces or the end  *)
(* of the input; %s reads up to the next space; input left over after the  *)
(* last verb is ignored.  A sequence number of the model has at most a few  *)
(* digits, far below the 64 bits of e.Sequence, so %d never overflows on   *)
(* the first field; the 8 bits of e.EventType are checked.                 *)
(***************************************************************************)
IsSpace(c) == c \in {" ", "\t", "\r", "\f"}

IsDigit(c) == \E d \in 1..10 : Digits[d] = c

DigitVal(c) == (CHOOSE d \in 1..10 : Digits[d] = c) - 1

\* In the three scans below and in Sscanf the arguments are bound to s, i and
\* line, so that each is evaluated once.
RECURSIVE SkipSpace(_, _)
SkipSpace(str, at) ==
    CHOOSE r \in {IF i <= Len(s) /\ IsSpace(s[i]) THEN SkipSpace(s, i + 1) ELSE i :
                    s \in {str}, i \in {at}} : TRUE

RECURSIVE TokenEnd(_, _)
TokenEnd(str, at) ==
    CHOOSE r \in {IF i <= Len(s) /\ ~IsSpace(s[i]) THEN TokenEnd(s, i + 1) ELSE i :
                    s \in {str}, i \in {at}} : TRUE

RECURSIVE DigitsEnd(_, _)
DigitsEnd(str, at) ==
    CHOOSE r \in {IF i <= Len(s) /\ IsDigit(s[i]) THEN DigitsEnd(s, i + 1) ELSE i :
                    s \in {str}, i \in {at}} : TRUE

RECURSIVE ParseUint(_)
ParseUint(ds) ==
    IF ds = <<>> THEN 0
    ELSE 10 * ParseUint(SubSeq(ds, 1, Len(ds) - 1)) + DigitVal(ds[Len(ds)])

ScanError(msg) == [err |-> msg, e |-> Event(0, <<>>, <<>>)]

Sscanf(input) ==
    CHOOSE r \in {
        LET i1 == SkipSpace(line, 1)
            j1 == DigitsEnd(line, i1)
            seq == ParseUint(SubSeq(line, i1, j1 - 1))
            i2 == SkipSpace(line, j1)
            j2 == DigitsEnd(line, i2)
            typ == ParseUint(SubSeq(line, i2, j2 - 1))
            i3 == SkipSpace(line, j2)
            j3 == TokenEnd(line, i3)
            i4 == SkipSpace(line, j3)
            j4 == TokenEnd(line, i4)
        IN  IF i1 > Len(line) THEN ScanError("unexpected EOF")
            ELSE IF j1 = i1 THEN ScanError("expected integer")
            ELSE IF j1 <= Len(line) /\ ~IsSpace(line[j1])
                THEN ScanError("expected space in input to match format")
            ELSE IF i2 > Len(line) THEN ScanError("unexpected EOF")
            ELSE IF j2 = i2 THEN ScanError("expected integer")
            ELSE IF typ > Uint8Max THEN ScanError("unsigned integer overflow")
            ELSE IF j2 <= Len(line) /\ ~IsSpace(line[j2])
                THEN ScanError("expected space in input to match format")
            ELSE IF i3 > Len(line) THEN ScanError("unexpected EOF")
            ELSE IF i4 > Len(line) THEN ScanError("unexpected EOF")
            ELSE [err |-> NoError,
                  e |-> [Sequence |-> seq, EventType |-> typ,
                         Key |-> SubSeq(line, i3, j3 - 1),
                         Value |-> SubSeq(line, i4, j4 - 1)]]
        : line \in {input}} : TRUE

(***************************************************************************)
(* State.                                                                  *)
(***************************************************************************)
VARIABLES
    file,          \* the bytes of the log file on disk
    offset,        \* the read offset of l.file (O_APPEND writes leave it at the end)
    events,        \* l.events: [nil, buf], nil before Run, buf the queued events
    errors,        \* l.errors: the buffered write failures
    lastSequence,  \* l.lastSequence
    wpc,           \* the consumer goroutine of Run: none, range, print, err, exit
    cur,           \* the event e the consumer holds
    werr,          \* the error err the consumer holds
    wreg,          \* the value of l.lastSequence the consumer loaded for its ++
    ppc,           \* each producer: idle, or send (inside l.events <- Event{...})
    pev,           \* the event a producer is sending
    pch,           \* the channel a producer is sending on: nil or ch
    calls,         \* how many WritePut/WriteDelete calls each producer has issued
    rpc,           \* the goroutine of ReadEvents: none, scan, send, closed
    scanner,       \* the text the scanner has read and not yet returned
    re,            \* the event e the reader is sending on outEvent
    outError,      \* the buffer of outError
    accepted,      \* history: the events whose send completed, in that order
    appends,       \* history: the number of Fprintf calls that succeeded
    failed,        \* history: the number of Fprintf calls that failed
    failedAt,      \* history: how many sends had completed when Fprintf failed
    pushed,        \* history: the number of errors the consumer sent on l.errors
    emitted,       \* history: the events received from outEvent, in order
    reported,      \* history: the errors received from outError, in order
    gen,           \* history: how many times the log file has been opened
    myMap,         \* myMap.m: the map of the key-value store
    mu,            \* myMap.RWMutex: [w, r], the writer holding it (0: none), the readers
    hpc,           \* each request goroutine's position in its handler
    hreq,          \* the request a goroutine serves: [op, key, value]
    hval,          \* the value, ok that Get read from the map: [value, ok]
    hres,          \* the response it wrote last: [status, value]
    lastOp,        \* history: per key, the last Put or Delete that took effect
    requests,      \* history: the number of requests the server accepted
    mutations      \* history: the number of PUT and DELETE requests answered 201, 200

vars == <<file, offset, events, errors, lastSequence, wpc, cur, werr, wreg, ppc, pev, pch,
          calls, rpc, scanner, re, outError, accepted, appends, failed, failedAt,
          pushed, emitted, reported, gen, myMap, mu, hpc, hreq, hval, hres, lastOp, requests,
          mutations>>

writerVars == <<events, errors, wpc, cur, werr, wreg, appends, failed, failedAt, pushed>>
producerVars == <<ppc, pev, pch, calls, accepted>>
readerVars == <<rpc, scanner, re, outError, emitted, reported>>
apiVars == <<myMap, mu, hpc, hreq, hval, hres, lastOp, requests, mutations>>

NoEvent == Event(0, <<>>, <<>>)

(***************************************************************************)
(* NewFileTransactionLogger: the file is opened (created when missing)     *)
(* for reading and appending; the logger holds nothing else.               *)
(***************************************************************************)
NewLogger ==
    /\ offset = 0
    /\ events = [nil |-> TRUE, buf |-> <<>>]
    /\ errors = <<>>
    /\ lastSequence = 0
    /\ wpc = "none"
    /\ cur = NoEvent
    /\ werr = NoError
    /\ wreg = 0
    /\ ppc = [p \in Producers |-> "idle"]
    /\ pev = [p \in Producers |-> NoEvent]
    /\ pch = [p \in Producers |-> "nil"]
    /\ calls = [p \in Producers |-> 0]
    /\ rpc = "none"
    /\ scanner = <<>>
    /\ re = NoEvent
    /\ outError = <<>>
    /\ emitted = <<>>
    /\ reported = <<>>

(***************************************************************************)
(* The package-level store and the HTTP server before any request: the     *)
(* map is empty, the RWMutex is free, no goroutine serves a request.       *)
(***************************************************************************)
Handlers == {1, 2}

APIKeys == {Foo, Bar}

APIValues == {Bar, Foo}

NoRequest == [op |-> "none", key |-> <<>>, value |-> <<>>]

NoResponse == [status |-> 0, value |-> <<>>]

NoValue == [value |-> <<>>, ok |-> FALSE]

NewServer ==
    /\ myMap = EmptyMap
    /\ mu = [w |-> 0, r |-> {}]
    /\ hpc = [h \in Handlers |-> "idle"]
    /\ hreq = [h \in Handlers |-> NoRequest]
    /\ hval = [h \in Handlers |-> NoValue]
    /\ hres = [h \in Handlers |-> NoResponse]
    /\ lastOp = [k \in APIKeys |-> NoRequest]
    /\ requests = 0
    /\ mutations = 0

Init ==
    /\ file = <<>>
    /\ NewLogger
    /\ NewServer
    /\ accepted = <<>>
    /\ appends = 0
    /\ failed = 0
    /\ failedAt = 0
    /\ pushed = 0
    /\ gen = 1

(***************************************************************************)
(* WritePut, WriteDelete: one channel send.  The call evaluates l.events   *)
(* and then waits in the send; Send is the send completing, which needs a  *)
(* channel (a send on a nil channel never completes) with room in it.      *)
(***************************************************************************)
Call(p, e) ==
    /\ ppc[p] = "idle"
    /\ ppc' = [ppc EXCEPT ![p] = "send"]
    /\ pev' = [pev EXCEPT ![p] = e]
    /\ pch' = [pch EXCEPT ![p] = IF events.nil THEN "nil" ELSE "ch"]
    /\ calls' = [calls EXCEPT ![p] = @ + 1]
    /\ UNCHANGED <<file, offset, lastSequence, accepted, gen>>
    /\ UNCHANGED writerVars
    /\ UNCHANGED readerVars
    /\ UNCHANGED apiVars

WritePut(p, key, value) == Call(p, Event(EventPut, key, value))

WriteDelete(p, key) == Call(p, Event(EventDelete, key, <<>>))

\* Send without the wait for room in the channel.
SendNoLimit(p) ==
    /\ ppc[p] = "send"
    /\ pch[p] = "ch"
    /\ events' = [events EXCEPT !.buf = Append(@, pev[p])]
    /\ accepted' = Append(accepted, pev[p])
    /\ ppc' = [ppc EXCEPT ![p] = "idle"]
    /\ pev' = [pev EXCEPT ![p] = NoEvent]
    /\ UNCHANGED <<file, offset, lastSequence, errors, wpc, cur, werr, appends, failed,
                   failedAt, pushed, pch, calls, gen>>
    /\ UNCHANGED wreg
    /\ UNCHANGED readerVars
    /\ UNCHANGED apiVars

\* Send writing over the newest queued event when the queue is not empty.
SendOverwrite(p) ==
    /\ ppc[p] = "send"
    /\ pch[p] = "ch"
    /\ Len(events.buf) < QueueCap
    /\ events' = [events EXCEPT !.buf = IF @ = <<>> THEN <<pev[p]>>
                                        ELSE SubSeq(@, 1, Len(@) - 1) \o <<pev[p]>>]
    /\ accepted' = Append(accepted, pev[p])
    /\ ppc' = [ppc EXCEPT ![p] = "idle"]
    /\ pev' = [pev EXCEPT ![p] = NoEvent]
    /\ UNCHANGED <<file, offset, lastSequence, errors, wpc, cur, werr, appends, failed,
                   failedAt, pushed, pch, calls, gen>>
    /\ UNCHANGED wreg
    /\ UNCHANGED readerVars
    /\ UNCHANGED apiVars

\* Send completing only once every event sent before has been written.
SendSynchronous(p) ==
    /\ ppc[p] = "send"
    /\ pch[p] = "ch"
    /\ Len(events.buf) < QueueCap
    /\ appends = Len(accepted)
    /\ events' = [events EXCEPT !.buf = Append(@, pev[p])]
    /\ accepted' = Append(accepted, pev[p])
    /\ ppc' = [ppc EXCEPT ![p] = "idle"]
    /\ pev' = [pev EXCEPT ![p] = NoEvent]
    /\ UNCHANGED <<file, offset, lastSequence, errors, wpc, cur, werr, appends, failed,
                   failedAt, pushed, pch, calls, gen>>
    /\ UNCHANGED wreg
    /\ UNCHANGED readerVars
    /\ UNCHANGED apiVars

\* Send looking at l.events again once Run has made the channel.
SendLate(p) ==
    /\ ppc[p] = "send"
    /\ ~events.nil
    /\ Len(events.buf) < QueueCap
    /\ events' = [events EXCEPT !.buf = Append(@, pev[p])]
    /\ accepted' = Append(accepted, pev[p])
    /\ ppc' = [ppc EXCEPT ![p] = "idle"]
    /\ pev' = [pev EXCEPT ![p] = NoEvent]
    /\ UNCHANGED <<file, offset, lastSequence, errors, wpc, cur, werr, appends, failed,
                   failedAt, pushed, pch, calls, gen>>
    /\ UNCHANGED wreg
    /\ UNCHANGED readerVars
    /\ UNCHANGED apiVars

Send(p) ==
    /\ ppc[p] = "send"
    /\ pch[p] = "ch"
    /\ Len(events.buf) < QueueCap
    /\ events' = [events EXCEPT !.buf = Append(@, pev[p])]
    /\ accepted' = Append(accepted, pev[p])
    /\ ppc' = [ppc EXCEPT ![p] = "idle"]
    /\ pev' = [pev EXCEPT ![p] = NoEvent]
    /\ UNCHANGED <<file, offset, lastSequence, errors, wpc, cur, werr, appends, failed,
                   failedAt, pushed, pch, calls, gen>>
    /\ UNCHANGED wreg
    /\ UNCHANGED readerVars
    /\ UNCHANGED apiVars

(***************************************************************************)
(* Run: makes the two channels and starts the consumer goroutine.          *)
(***************************************************************************)
Run ==
    /\ wpc = "none"
    /\ events' = [nil |-> FALSE, buf |-> <<>>]
    /\ errors' = <<>>
    /\ wpc' = "range"
    /\ UNCHANGED <<file, offset, lastSequence, cur, werr, appends, failed, failedAt,
                   pushed, gen>>
    /\ UNCHANGED producerVars
    /\ UNCHANGED wreg
    /\ UNCHANGED readerVars
    /\ UNCHANGED apiVars

(***************************************************************************)
(* The consumer: for e := range events { l.lastSequence++; Fprintf; ... }  *)
(***************************************************************************)
\* Dequeue without the increment of l.lastSequence.
DequeueNoIncrement ==
    /\ wpc = "range"
    /\ events.buf # <<>>
    /\ cur' = Head(events.buf)
    /\ events' = [events EXCEPT !.buf = Tail(@)]
    /\ lastSequence' = lastSequence
    /\ wpc' = "print"
    /\ UNCHANGED <<file, offset, errors, werr, appends, failed, failedAt, pushed, gen>>
    /\ UNCHANGED producerVars
    /\ UNCHANGED wreg
    /\ UNCHANGED readerVars
    /\ UNCHANGED apiVars

\* Dequeue waiting for a second event before it takes the first.
DequeueLazy ==
    /\ wpc = "range"
    /\ Len(events.buf) >= 2
    /\ cur' = Head(events.buf)
    /\ events' = [events EXCEPT !.buf = Tail(@)]
    /\ lastSequence' = lastSequence + 1
    /\ wpc' = "print"
    /\ UNCHANGED <<file, offset, errors, werr, appends, failed, failedAt, pushed, gen>>
    /\ UNCHANGED producerVars
    /\ UNCHANGED wreg
    /\ UNCHANGED readerVars
    /\ UNCHANGED apiVars

\* Dequeue taking the newest event of the queue instead of the oldest.
DequeueNewest ==
    /\ wpc = "range"
    /\ events.buf # <<>>
    /\ cur' = events.buf[Len(events.buf)]
    /\ events' = [events EXCEPT !.buf = SubSeq(@, 1, Len(@) - 1)]
    /\ lastSequence' = lastSequence + 1
    /\ wpc' = "print"
    /\ UNCHANGED <<file, offset, errors, werr, appends, failed, failedAt, pushed, gen>>
    /\ UNCHANGED producerVars
    /\ UNCHANGED wreg
    /\ UNCHANGED readerVars
    /\ UNCHANGED apiVars

Dequeue ==
    /\ wpc = "range"
    /\ events.buf # <<>>
    /\ cur' = Head(events.buf)
    /\ events' = [events EXCEPT !.buf = Tail(@)]
    /\ lastSequence' = lastSequence + 1
    /\ wpc' = "print"
    /\ UNCHANGED <<file, offset, errors, werr, appends, failed, failedAt, pushed, gen>>
    /\ UNCHANGED producerVars
    /\ UNCHANGED wreg
    /\ UNCHANGED readerVars
    /\ UNCHANGED apiVars

Record == Fprintf(lastSequence, cur.EventType, cur.Key, cur.Value)

FprintfOk ==
    /\ wpc = "print"
    /\ file' = file \o Record
    /\ offset' = Len(file')
    /\ appends' = appends + 1
    /\ wpc' = "range"
    /\ UNCHANGED <<events, errors, lastSequence, cur, werr, failed, failedAt, pushed, gen>>
    /\ UNCHANGED producerVars
    /\ UNCHANGED wreg
    /\ UNCHANGED readerVars
    /\ UNCHANGED apiVars

\* A failed write leaves a proper prefix of the record in the file: nothing, half
\* of it, or all of it but the newline.
PartialWrites(rec) == {0, Len(rec) \div 2, Len(rec) - 1}

\* FprintfFail with the consumer carrying on with the next event.
FprintfFailIgnored ==
    /\ wpc = "print"
    /\ \E n \in PartialWrites(Record) :
          /\ file' = file \o SubSeq(Record, 1, n)
          /\ offset' = Len(file')
    /\ werr' = "write error"
    /\ wpc' = "range"
    /\ failed' = failed + 1
    /\ failedAt' = Len(accepted)
    /\ UNCHANGED <<events, errors, lastSequence, cur, appends, pushed, gen>>
    /\ UNCHANGED producerVars
    /\ UNCHANGED wreg
    /\ UNCHANGED readerVars
    /\ UNCHANGED apiVars

FprintfFail ==
    /\ wpc = "print"
    /\ \E n \in PartialWrites(Record) :
          /\ file' = file \o SubSeq(Record, 1, n)
          /\ offset' = Len(file')
    /\ werr' = "write error"
    /\ wpc' = "err"
    /\ failed' = failed + 1
    /\ failedAt' = Len(accepted)
    /\ UNCHANGED <<events, errors, lastSequence, cur, appends, pushed, gen>>
    /\ UNCHANGED producerVars
    /\ UNCHANGED wreg
    /\ UNCHANGED readerVars
    /\ UNCHANGED apiVars

\* SendErr going back to the loop instead of returning.
SendErrContinue ==
    /\ wpc = "err"
    /\ Len(errors) < ErrCap
    /\ errors' = Append(errors, werr)
    /\ pushed' = pushed + 1
    /\ wpc' = "range"
    /\ UNCHANGED <<file, offset, events, lastSequence, cur, werr, appends, failed,
                   failedAt, gen>>
    /\ UNCHANGED producerVars
    /\ UNCHANGED wreg
    /\ UNCHANGED readerVars
    /\ UNCHANGED apiVars

SendErr ==
    /\ wpc = "err"
    /\ Len(errors) < ErrCap
    /\ errors' = Append(errors, werr)
    /\ pushed' = pushed + 1
    /\ wpc' = "exit"
    /\ UNCHANGED <<file, offset, events, lastSequence, cur, werr, appends, failed,
                   failedAt, gen>>
    /\ UNCHANGED producerVars
    /\ UNCHANGED wreg
    /\ UNCHANGED readerVars
    /\ UNCHANGED apiVars

\* A caller receiving from Err().
RecvErr ==
    /\ ~events.nil
    /\ errors # <<>>
    /\ errors' = Tail(errors)
    /\ UNCHANGED <<file, offset, events, lastSequence, wpc, cur, werr, appends, failed,
                   failedAt, pushed, gen>>
    /\ UNCHANGED producerVars
    /\ UNCHANGED wreg
    /\ UNCHANGED readerVars
    /\ UNCHANGED apiVars

(***************************************************************************)
(* The writer with producers that start after Run and issue MaxCalls       *)
(* calls each, drawn from Keys and Values.                                 *)
(***************************************************************************)
Produce ==
    \E p \in Producers :
        /\ ~events.nil
        /\ calls[p] < MaxCalls
        /\ \/ \E k \in Keys, v \in Values : WritePut(p, k, v)
           \/ \E k \in Keys : WriteDelete(p, k)

Next ==
    \/ Run
    \/ Produce
    \/ \E p \in Producers : Send(p)
    \/ Dequeue
    \/ FprintfOk
    \/ FprintfFail
    \/ SendErr
    \/ RecvErr

Spec == Init /\ [][Next]_vars

(***************************************************************************)
(* ReadEvents: makes the scanner and the two channels and starts the       *)
(* reader goroutine.                                                       *)
(***************************************************************************)
\* ReadEvents starting the consumer of Run as well.
ReadEventsAndRun ==
    /\ rpc = "none"
    /\ wpc = "none"
    /\ rpc' = "scan"
    /\ scanner' = <<>>
    /\ outError' = <<>>
    /\ events' = [nil |-> FALSE, buf |-> <<>>]
    /\ errors' = <<>>
    /\ wpc' = "range"
    /\ UNCHANGED <<file, offset, lastSequence, re, emitted, reported, accepted, gen>>
    /\ UNCHANGED <<cur, werr, wreg, appends, failed, failedAt, pushed>>
    /\ UNCHANGED <<ppc, pev, pch, calls>>
    /\ UNCHANGED apiVars

ReadEvents ==
    /\ rpc = "none"
    /\ rpc' = "scan"
    /\ scanner' = <<>>
    /\ outError' = <<>>
    /\ UNCHANGED <<file, offset, lastSequence, re, emitted, reported, accepted, gen>>
    /\ UNCHANGED writerVars
    /\ UNCHANGED <<ppc, pev, pch, calls>>
    /\ UNCHANGED apiVars

(***************************************************************************)
(* scanner.Scan(): when the buffer holds no complete line the scanner      *)
(* reads the file from the handle's offset to its end; the token is the    *)
(* first line of the buffer, and there is none when the buffer is empty.   *)
(***************************************************************************)
Filled == IF HasNewline(scanner) THEN scanner ELSE scanner \o SubSeq(file, offset + 1, Len(file))

OffsetAfterScan == IF HasNewline(scanner) THEN offset ELSE Len(file)

Line == ScanToken(Filled)

ReaderExit(err) ==
    /\ Len(outError) < OutErrorCap
    /\ outError' = Append(outError, err)
    /\ rpc' = "closed"
    /\ scanner' = ScanRest(Filled)
    /\ offset' = OffsetAfterScan

ReadParseError ==
    /\ rpc = "scan"
    /\ Filled # <<>>
    /\ Sscanf(Line).err # NoError
    /\ ReaderExit("input parse error")
    /\ UNCHANGED <<file, lastSequence, re, emitted, reported, accepted, gen>>
    /\ UNCHANGED writerVars
    /\ UNCHANGED <<ppc, pev, pch, calls>>
    /\ UNCHANGED apiVars

ReadSequenceError ==
    /\ rpc = "scan"
    /\ Filled # <<>>
    /\ Sscanf(Line).err = NoError
    /\ lastSequence >= Sscanf(Line).e.Sequence
    /\ ReaderExit("transaction numbers out of sequence")
    /\ UNCHANGED <<file, lastSequence, re, emitted, reported, accepted, gen>>
    /\ UNCHANGED writerVars
    /\ UNCHANGED <<ppc, pev, pch, calls>>
    /\ UNCHANGED apiVars

\* ReadNext accepting a sequence number equal to the last one seen.
ReadNextLax ==
    /\ rpc = "scan"
    /\ Filled # <<>>
    /\ Sscanf(Line).err = NoError
    /\ lastSequence <= Sscanf(Line).e.Sequence
    /\ lastSequence' = Sscanf(Line).e.Sequence
    /\ re' = Sscanf(Line).e
    /\ rpc' = "send"
    /\ scanner' = ScanRest(Filled)
    /\ offset' = OffsetAfterScan
    /\ UNCHANGED <<file, outError, emitted, reported, accepted, gen>>
    /\ UNCHANGED writerVars
    /\ UNCHANGED <<ppc, pev, pch, calls>>
    /\ UNCHANGED apiVars

\* ReadNext leaving l.lastSequence as it was.
ReadNextNoTrack ==
    /\ rpc = "scan"
    /\ Filled # <<>>
    /\ Sscanf(Line).err = NoError
    /\ lastSequence < Sscanf(Line).e.Sequence
    /\ re' = Sscanf(Line).e
    /\ rpc' = "send"
    /\ scanner' = ScanRest(Filled)
    /\ offset' = OffsetAfterScan
    /\ UNCHANGED <<file, lastSequence, outError, emitted, reported, accepted, gen>>
    /\ UNCHANGED writerVars
    /\ UNCHANGED <<ppc, pev, pch, calls>>
    /\ UNCHANGED apiVars

ReadNext ==
    /\ rpc = "scan"
    /\ Filled # <<>>
    /\ Sscanf(Line).err = NoError
    /\ lastSequence < Sscanf(Line).e.Sequence
    /\ lastSequence' = Sscanf(Line).e.Sequence
    /\ re' = Sscanf(Line).e
    /\ rpc' = "send"
    /\ scanner' = ScanRest(Filled)
    /\ offset' = OffsetAfterScan
    /\ UNCHANGED <<file, outError, emitted, reported, accepted, gen>>
    /\ UNCHANGED writerVars
    /\ UNCHANGED <<ppc, pev, pch, calls>>
    /\ UNCHANGED apiVars

\* End of file: scanner.Err() is nil, and the deferred closes run.
ReadEOF ==
    /\ rpc = "scan"
    /\ Filled = <<>>
    /\ rpc' = "closed"
    /\ offset' = OffsetAfterScan
    /\ UNCHANGED <<file, lastSequence, scanner, re, outError, emitted, reported, accepted,
                   gen>>
    /\ UNCHANGED writerVars
    /\ UNCHANGED <<ppc, pev, pch, calls>>
    /\ UNCHANGED apiVars

\* The read of the file fails: Scan returns false and scanner.Err() is not nil.
ReadFailure ==
    /\ rpc = "scan"
    /\ scanner = <<>>
    /\ Len(outError) < OutErrorCap
    /\ outError' = Append(outError, "transaction log read failure")
    /\ rpc' = "closed"
    /\ UNCHANGED <<file, offset, lastSequence, scanner, re, emitted, reported, accepted,
                   gen>>
    /\ UNCHANGED writerVars
    /\ UNCHANGED <<ppc, pev, pch, calls>>
    /\ UNCHANGED apiVars

\* outEvent is unbuffered: the send of line 180 completes when the caller receives.
RecvEvent ==
    /\ rpc = "send"
    /\ emitted' = Append(emitted, re)
    /\ rpc' = "scan"
    /\ UNCHANGED <<file, offset, lastSequence, scanner, re, outError, reported, accepted,
                   gen>>
    /\ UNCHANGED writerVars
    /\ UNCHANGED <<ppc, pev, pch, calls>>
    /\ UNCHANGED apiVars

\* The caller receiving an error from outError.
RecvError ==
    /\ outError # <<>>
    /\ reported' = Append(reported, Head(outError))
    /\ outError' = Tail(outError)
    /\ UNCHANGED <<file, offset, lastSequence, rpc, scanner, re, emitted, accepted, gen>>
    /\ UNCHANGED writerVars
    /\ UNCHANGED <<ppc, pev, pch, calls>>
    /\ UNCHANGED apiVars

Replay ==
    \/ ReadEvents
    \/ ReadParseError
    \/ ReadSequenceError
    \/ ReadNext
    \/ ReadEOF
    \/ ReadFailure
    \/ RecvEvent
    \/ RecvError

(***************************************************************************)
(* The process ends and starts again: NewFileTransactionLogger opens the   *)
(* same file, and the goroutines and channels of the old process are gone. *)
(***************************************************************************)
Reopen ==
    /\ gen' = gen + 1
    /\ offset' = 0
    /\ events' = [nil |-> TRUE, buf |-> <<>>]
    /\ errors' = <<>>
    /\ lastSequence' = 0
    /\ wpc' = "none"
    /\ cur' = NoEvent
    /\ werr' = NoError
    /\ wreg' = 0
    /\ ppc' = [p \in Producers |-> "idle"]
    /\ pev' = [p \in Producers |-> NoEvent]
    /\ pch' = [p \in Producers |-> "nil"]
    /\ calls' = [p \in Producers |-> 0]
    /\ rpc' = "none"
    /\ scanner' = <<>>
    /\ re' = NoEvent
    /\ outError' = <<>>
    /\ emitted' = <<>>
    /\ reported' = <<>>
    /\ UNCHANGED <<file, accepted, appends, failed, failedAt, pushed>>
    \* the new process starts with the store and server of NewServer, which is
    \* what they are here: no request is served in a life of the log
    /\ UNCHANGED apiVars

(***************************************************************************)
(* A life of the log: the first process writes, the second replays.        *)
(***************************************************************************)
NextLife ==
    \/ gen = 1 /\ Next
    \/ gen = 1 /\ Reopen
    \/ gen = 2 /\ Replay

SpecLife == Init /\ [][NextLife]_vars

(***************************************************************************)
(* Replay of a log file found on disk: up to MaxLines lines, each a        *)
(* record as the writer lays it out or a damaged line.                     *)
(***************************************************************************)
ReplaySeqs == {0, 1, 3, 5}

LogLines ==
    {Fprintf(s, EventPut, k, v) : s \in ReplaySeqs, k \in Keys, v \in Values}
        \cup {Fprintf(s, EventDelete, k, <<>>) : s \in ReplaySeqs, k \in Keys}
        \cup {<<"x", "\n">>, <<"\n">>}

RECURSIVE LogFiles(_)
LogFiles(n) ==
    IF n = 0 THEN {<<>>}
    ELSE LET shorter == LogFiles(n - 1)
         IN  shorter \cup {f \o l : f \in shorter, l \in LogLines}

InitReplay ==
    /\ file \in LogFiles(MaxLines)
    /\ NewLogger
    /\ NewServer
    /\ accepted = <<>>
    /\ appends = 0
    /\ failed = 0
    /\ failedAt = 0
    /\ pushed = 0
    /\ gen = 1

SpecReplay == InitReplay /\ [][Replay]_vars

(***************************************************************************)
(* The writer under load: the same goroutines, with producers that issue   *)
(* MaxCallsBP calls each, all of them the same Put, so that the queue      *)
(* fills.                                                                  *)
(***************************************************************************)
ProduceBP ==
    \E p \in Producers :
        /\ ~events.nil
        /\ calls[p] < MaxCallsBP
        /\ WritePut(p, Foo, Bar)

NextBP ==
    \/ Run
    \/ ProduceBP
    \/ \E p \in Producers : Send(p)
    \/ Dequeue
    \/ FprintfOk
    \/ FprintfFail
    \/ SendErr
    \/ RecvErr

SpecBP == Init /\ [][NextBP]_vars

(***************************************************************************)
(* Scheduling.  The consumer goroutine is scheduled whenever it can take   *)
(* a step; a call to Fprintf returns, with or without an error; a sender   *)
(* waiting on the channel is served in turn when room appears (the Go      *)
(* runtime keeps the waiting senders in a FIFO queue).                     *)
(***************************************************************************)
Fairness ==
    /\ WF_vars(Dequeue)
    /\ WF_vars(FprintfOk \/ FprintfFail)
    /\ WF_vars(SendErr)
    /\ \A p \in Producers : SF_vars(Send(p))

FairSpec == Spec /\ Fairness

FairSpecBP == SpecBP /\ Fairness

(***************************************************************************)
(* Reading the model's state.                                              *)
(***************************************************************************)
\* The lines of a text, as bufio.ScanLines splits it.
RECURSIVE FileLines(_)
FileLines(s) == IF s = <<>> THEN <<>> ELSE <<ScanToken(s)>> \o FileLines(ScanRest(s))

\* The decimal number a line starts with.
LeadingSeq(line) == ParseUint(SubSeq(line, 1, DigitsEnd(line, 1) - 1))

\* The line the writer lays out for event e under sequence number i.
RecordLine(i, e) == LET r == Fprintf(i, e.EventType, e.Key, e.Value) IN SubSeq(r, 1, Len(r) - 1)

\* The events the writer has appended, in order.
Recorded == SubSeq(accepted, 1, appends)

\* Applying a replayed event to the store.
ApplyEvent(m, e) ==
    IF e.EventType = EventPut THEN Put(m, e.Key, e.Value)
    ELSE IF e.EventType = EventDelete THEN Delete(m, e.Key)
    ELSE m

RECURSIVE ApplyEvents(_, _)
ApplyEvents(m, es) == IF es = <<>> THEN m ELSE ApplyEvents(ApplyEvent(m, Head(es)), Tail(es))

\* Every error the reader has put on outError.
ReaderErrors == reported \o outError

ReadFailed == \E i \in 1..Len(ReaderErrors) : ReaderErrors[i] = "transaction log read failure"

TotalCalls == Cardinality(Producers) * MaxCalls

(***************************************************************************)
(* C1.  Replay determinism: when the log written by the first process      *)
(* without a write failure has been read to its end by ReadEvents, no      *)
(* error has been reported and the events emitted, applied to an empty     *)
(* store, give the store that the appended Put/Delete operations give.     *)
(***************************************************************************)
C1_ReplayDeterminism ==
    (gen = 2 /\ rpc = "closed" /\ failed = 0 /\ ~ReadFailed)
        => /\ ReaderErrors = <<>>
           /\ ApplyEvents(EmptyMap, emitted) = ApplyEvents(EmptyMap, Recorded)

(***************************************************************************)
(* C2.  Sequence monotonicity: after N successful appends to an empty log  *)
(* the first N lines of the file carry the sequence numbers 1, 2, ..., N   *)
(* in that order, and while no append has failed the file holds no other   *)
(* line.                                                                   *)
(***************************************************************************)
C2_SequenceMonotonicity ==
    LET ls == FileLines(file)
    IN  /\ Len(ls) >= appends
        /\ \A i \in 1..appends : LeadingSeq(ls[i]) = i
        /\ failed = 0 => Len(ls) = appends
        /\ failed = 0 /\ wpc # "print" => lastSequence = appends

C2_Witness == appends >= 3 /\ failed = 0

(***************************************************************************)
(* C4.  FIFO ordering: the j-th event whose enqueue completed is the j-th  *)
(* record of the file and carries sequence number j; the events not yet    *)
(* appended are the one the consumer holds and then the queue, in the      *)
(* order their enqueues completed.                                         *)
(***************************************************************************)
C4_FifoOrder ==
    LET ls == FileLines(file)
        held == IF wpc \in {"print", "err", "exit"} THEN <<cur>> ELSE <<>>
    IN  /\ appends <= Len(accepted)
        /\ \A j \in 1..appends : j <= Len(ls) /\ ls[j] = RecordLine(j, accepted[j])
        /\ accepted = Recorded \o held \o events.buf

C4_Witness ==
    /\ appends >= 2
    /\ accepted[1] # accepted[2]
    /\ ppc[1] = "idle" /\ calls[1] = 1
    /\ calls[2] = MaxCalls

(***************************************************************************)
(* C5.  Fail-stop on write failure: after a failed append the consumer     *)
(* sends that one error and returns.  The send finds room in l.errors      *)
(* when nobody has received from it; the consumer does not write to the    *)
(* file again, does not take another event from the queue and does not     *)
(* fail a second time.                                                     *)
(***************************************************************************)
C5_FailStopState ==
    failed > 0 =>
        /\ failed = 1
        /\ wpc \in {"err", "exit"}
        /\ wpc = "err" => pushed = 0 /\ Len(errors) < ErrCap
        /\ wpc = "exit" => pushed = 1
        /\ Len(errors) <= ErrCap

C5_FailStopStep ==
    failed > 0 =>
        /\ file' = file
        /\ appends' = appends
        /\ lastSequence' = lastSequence
        /\ cur' = cur
        /\ Len(events'.buf) >= Len(events.buf)
        /\ wpc' \in {"err", "exit"}
        /\ wpc = "exit" => wpc' = "exit"

\* C5: the state and the step of the consumer after a failed append.
C5_FailStop == [](C5_FailStopState) /\ [][C5_FailStopStep]_vars

C5_Witness ==
    /\ failed = 1
    /\ wpc = "exit"
    /\ errors = <<"write error">>
    /\ events.buf # <<>>

(***************************************************************************)
(* C3.  Concurrent correctness: once every producer has issued its         *)
(* MaxCalls calls, then unless an append fails the log comes to hold       *)
(* exactly one record per call, every sequence number from 1 to the        *)
(* number of calls exactly once, each record the layout of one enqueued    *)
(* event with none missing and none twice; and it stays so.                *)
(***************************************************************************)
AllIssued == \A p \in Producers : calls[p] = MaxCalls

C3_Complete ==
    LET ls == FileLines(file)
    IN  /\ Len(ls) = TotalCalls
        /\ Len(accepted) = TotalCalls
        /\ \A n \in 1..TotalCalls : Cardinality({i \in 1..Len(ls) : LeadingSeq(ls[i]) = n}) = 1
        /\ \A i \in 1..TotalCalls : ls[i] = RecordLine(i, accepted[i])
        /\ events.buf = <<>>
        /\ \A p \in Producers : ppc[p] = "idle"

\* C3: all calls issued leads to the complete log, which then stays.
C3_ConcurrentCorrectness ==
    /\ AllIssued ~> (failed > 0 \/ C3_Complete)
    /\ [][C3_Complete => file' = file /\ accepted' = accepted /\ events' = events
                             /\ ppc' = ppc]_vars

C3_Witness == C3_Complete /\ failed = 0 /\ accepted[1] # accepted[2]

(***************************************************************************)
(* C8.  Eventual write: with the consumer scheduled fairly, the n-th event *)
(* accepted by a completed call is eventually the n-th record of the log,  *)
(* or else an error has been put on the error stream.                      *)
(***************************************************************************)
C8_EventualWrite ==
    \A n \in 1..TotalCalls :
        (Len(accepted) >= n)
            ~> \/ appends >= n /\ FileLines(file)[n] = RecordLine(n, accepted[n])
               \/ pushed > 0

C8_Witness ==
    /\ Len(accepted) = TotalCalls
    /\ appends = TotalCalls
    /\ pushed = 0
    /\ FileLines(file)[TotalCalls] = RecordLine(TotalCalls, accepted[TotalCalls])

(***************************************************************************)
(* C6.  Backpressure: the queue never holds more than QueueCap events; a   *)
(* call that finds it full stays in its send, holding its event, and the   *)
(* only way out of a send is the event entering the queue; when the        *)
(* consumer drains, the blocked call completes, and the event accepted     *)
(* after a full queue is appended, unless an append fails.                 *)
(***************************************************************************)
C6_BlockedWhileFull ==
    \A p \in Producers :
        (ppc[p] = "send" /\ Len(events.buf) = QueueCap)
            => (ppc'[p] = "send" /\ pev'[p] = pev[p])

C6_NeverDropped ==
    \A p \in Producers :
        ppc[p] = "send"
            => \/ ppc'[p] = "send" /\ pev'[p] = pev[p]
               \/ /\ events'.buf = Append(events.buf, pev[p])
                  /\ accepted' = Append(accepted, pev[p])

\* C6: the bound, the blocked send, no drop, and completion under fairness.
C6_Backpressure ==
    /\ [](Len(events.buf) <= QueueCap)
    /\ [][C6_BlockedWhileFull]_vars
    /\ [][C6_NeverDropped]_vars
    /\ \A p \in Producers :
          (ppc[p] = "send" /\ Len(events.buf) = QueueCap) ~> (ppc[p] = "idle" \/ failed > 0)
    /\ (Len(accepted) > QueueCap) ~> (appends > QueueCap \/ failed > 0)

C6_Witness ==
    /\ Len(events.buf) = QueueCap
    /\ Len(accepted) = QueueCap
    /\ wpc = "range"
    /\ appends = 0
    /\ \E p \in Producers : ppc[p] = "send"

(***************************************************************************)
(* C7.  Latent deadlock after fail-stop: once an append has failed, at     *)
(* most QueueCap further enqueue calls complete; their events stay in the  *)
(* queue and the file never changes; and once the queue is full it stays   *)
(* full, so that every call in its send stays there.                       *)
(***************************************************************************)
C7_AfterFailure ==
    failed > 0 =>
        /\ Len(accepted) >= failedAt
        /\ Len(accepted) - failedAt <= QueueCap
        /\ failedAt >= appends + 1
        /\ events.buf = SubSeq(accepted, appends + 2, Len(accepted))

C7_Stuck ==
    failed > 0 =>
        /\ file' = file
        /\ appends' = appends
        /\ Len(events.buf) = QueueCap =>
              /\ events' = events
              /\ \A p \in Producers : ppc[p] = "send" => ppc'[p] = "send"

\* C7: the state after a failed append and the steps that remain.
C7_LatentDeadlock == [](C7_AfterFailure) /\ [][C7_Stuck]_vars

C7_Witness ==
    /\ failed = 1
    /\ wpc = "exit"
    /\ Len(accepted) - failedAt = QueueCap
    /\ Len(events.buf) = QueueCap
    /\ \E p \in Producers : ppc[p] = "send"

(***************************************************************************)
(* C9.  Put-then-Delete replay: when the log `1\t2\tfoo\tbar`,             *)
(* `2\t1\tfoo\t` has been read to its end, ReadEvents has emitted both     *)
(* events and reported no error, and the events applied to an empty store  *)
(* leave foo absent.                                                       *)
(***************************************************************************)
PutThenDeleteLog == Fprintf(1, EventPut, Foo, Bar) \o Fprintf(2, EventDelete, Foo, <<>>)

\* C9: the replay of the Put-then-Delete log.
C9_PutThenDelete ==
    (gen = 2 /\ rpc = "closed" /\ file = PutThenDeleteLog /\ ~ReadFailed)
        => /\ ReaderErrors = <<>>
           /\ Len(emitted) = 2
           /\ Foo \notin DOMAIN ApplyEvents(EmptyMap, emitted)

(***************************************************************************)
(* C10.  Sequence regression detection: the sequence numbers of the events *)
(* emitted are strictly increasing and above 0; when the next line parses  *)
(* to a sequence number not above l.lastSequence the reader emits nothing  *)
(* for it and ends with the sequencing error (or the read itself fails);   *)
(* once the reader has ended nothing more is emitted; and a log whose      *)
(* first two records carry 5 and 3 gives exactly the first event and then  *)
(* the sequencing error.                                                   *)
(***************************************************************************)
Increasing(es) == \A i, j \in 1..Len(es) : i < j => es[i].Sequence < es[j].Sequence

Sending == IF rpc = "send" THEN <<re>> ELSE <<>>

C10_Emitted ==
    /\ Increasing(emitted \o Sending)
    /\ \A i \in 1..Len(emitted) : 0 < emitted[i].Sequence /\ emitted[i].Sequence <= lastSequence

SeqRegression ==
    /\ rpc = "scan"
    /\ Filled # <<>>
    /\ Sscanf(Line).err = NoError
    /\ Sscanf(Line).e.Sequence <= lastSequence

C10_Rejected ==
    SeqRegression =>
        /\ rpc' = "closed"
        /\ emitted' = emitted
        /\ lastSequence' = lastSequence
        /\ outError' \in {<<"transaction numbers out of sequence">>,
                           <<"transaction log read failure">>}

C10_Ended == rpc = "closed" => rpc' = "closed" /\ emitted' = emitted

FiveThenThree == Fprintf(5, EventPut, Foo, Bar) \o Fprintf(3, EventPut, Foo, Bar)

StartsWith(s, t) == Len(s) >= Len(t) /\ SubSeq(s, 1, Len(t)) = t

C10_FiveThenThree ==
    (rpc = "closed" /\ StartsWith(file, FiveThenThree) /\ ~ReadFailed)
        => /\ Len(emitted) = 1
           /\ emitted[1].Sequence = 5
           /\ ReaderErrors = <<"transaction numbers out of sequence">>

\* C10: emitted sequences, the rejected record, the ended reader, 5 then 3.
C10_SequenceRegression ==
    /\ [](C10_Emitted /\ C10_FiveThenThree)
    /\ [][C10_Rejected]_vars
    /\ [][C10_Ended]_vars

C10_Witness ==
    /\ rpc = "closed"
    /\ StartsWith(file, FiveThenThree)
    /\ Len(file) > Len(FiveThenThree)
    /\ Len(emitted) = 1
    /\ reported = <<"transaction numbers out of sequence">>

(***************************************************************************)
(* The record layout of the log format: four fields separated by single    *)
(* tabs, a decimal sequence, the kind 1 or 2, the key, the value (empty    *)
(* for a Delete).                                                          *)
(***************************************************************************)
Tabs(line) == {i \in 1..Len(line) : line[i] = "\t"}

FieldStart(line, n) ==
    IF n = 1 THEN 1
    ELSE 1 + CHOOSE i \in Tabs(line) : Cardinality({j \in Tabs(line) : j < i}) = n - 2

FieldEnd(line, n) ==
    IF n = Cardinality(Tabs(line)) + 1 THEN Len(line)
    ELSE (CHOOSE i \in Tabs(line) : Cardinality({j \in Tabs(line) : j < i}) = n - 1) - 1

Field(line, n) == SubSeq(line, FieldStart(line, n), FieldEnd(line, n))

AllDigits(s) == s # <<>> /\ \A i \in 1..Len(s) : IsDigit(s[i])

WellFormed(line) ==
    /\ Cardinality(Tabs(line)) = 3
    /\ AllDigits(Field(line, 1))
    /\ Field(line, 2) \in {FormatUint(EventDelete), FormatUint(EventPut)}

LineEvent(line) ==
    [Sequence |-> ParseUint(Field(line, 1)), EventType |-> ParseUint(Field(line, 2)),
     Key |-> Field(line, 3), Value |-> Field(line, 4)]

\* The first n lines carry strictly increasing sequence numbers above 0.
SeqsIncrease(ls, n) ==
    \A j \in 1..n : LeadingSeq(ls[j]) > (IF j = 1 THEN 0 ELSE LeadingSeq(ls[j - 1]))

Malformed(ls) == {i \in 1..Len(ls) : ~WellFormed(ls[i])}

FirstMalformed(ls) == CHOOSE i \in Malformed(ls) : \A j \in Malformed(ls) : i <= j

(***************************************************************************)
(* C11: parse failure containment.  When the first malformed line of the   *)
(* log is line i (the lines before it well-formed and in sequence), the    *)
(* reader that has ended emitted exactly the events of lines 1..i-1, in    *)
(* file order, and reported one parse error.                               *)
(***************************************************************************)
C11_ParseFailureContainment ==
    LET ls == FileLines(file) IN
    (/\ rpc = "closed"
     /\ ~ReadFailed
     /\ Malformed(ls) # {}
     /\ SeqsIncrease(ls, FirstMalformed(ls) - 1))
        => /\ emitted = [j \in 1..(FirstMalformed(ls) - 1) |-> LineEvent(ls[j])]
           /\ ReaderErrors = <<"input parse error">>

(***************************************************************************)
(* Replay, then the writer on the same logger: the caller drains           *)
(* ReadEvents until its streams are closed, then calls Run and issues      *)
(* WritePut calls from one goroutine.  The log file on disk is any file of  *)
(* up to MaxLinesResume lines, its last line with or without the final     *)
(* newline (a write that failed part-way leaves the latter).               *)
(***************************************************************************)
MaxCallsResume == 2
MaxLinesResume == 2

ResumeFiles ==
    LogFiles(MaxLinesResume)
        \cup {SubSeq(f, 1, Len(f) - 1) : f \in LogFiles(MaxLinesResume) \ {<<>>}}

ResumeProducer == CHOOSE p \in Producers : TRUE

InitResume ==
    /\ file \in ResumeFiles
    /\ NewLogger
    /\ NewServer
    /\ accepted = <<>>
    /\ appends = 0
    /\ failed = 0
    /\ failedAt = 0
    /\ pushed = 0
    /\ gen = 1

ProduceResume ==
    /\ ~events.nil
    /\ calls[ResumeProducer] < MaxCallsResume
    /\ WritePut(ResumeProducer, Foo, Bar)

NextResume ==
    \/ Replay
    \/ rpc = "closed" /\ Run
    \/ ProduceResume
    \/ \E p \in Producers : Send(p)
    \/ Dequeue
    \/ FprintfOk
    \/ FprintfFail
    \/ SendErr
    \/ RecvErr

SpecResume == InitResume /\ [][NextResume]_vars

\* The records the writer appends for the events es after sequence number m.
RECURSIVE Records(_, _)
Records(m, es) ==
    IF es = <<>> THEN <<>>
    ELSE Fprintf(m + 1, Head(es).EventType, Head(es).Key, Head(es).Value)
             \o Records(m + 1, Tail(es))

EndsWith(s, t) == Len(s) >= Len(t) /\ SubSeq(s, Len(s) - Len(t) + 1, Len(s)) = t

\* The largest sequence number the replay emitted, 0 for an empty log.
Replayed == IF emitted = <<>> THEN 0 ELSE emitted[Len(emitted)].Sequence

(***************************************************************************)
(* C12: sequence continuation after replay.  After a replay that ended     *)
(* without error on a log whose largest sequence is M, the records the     *)
(* writer appends carry M+1, M+2, ... in order, and none of them carries   *)
(* a sequence number the replayed log already holds.                       *)
(***************************************************************************)
C12_SequenceContinuation ==
    (wpc # "none" /\ ReaderErrors = <<>>) =>
        /\ \A j \in 1..Len(emitted) : emitted[j].Sequence <= Replayed
        /\ lastSequence = Replayed + appends + failed + (IF wpc = "print" THEN 1 ELSE 0)
        /\ failed = 0 => EndsWith(file, Records(Replayed, Recorded))
        /\ \A k \in 1..appends : \A j \in 1..Len(emitted) :
               emitted[j].Sequence # Replayed + k

C12_Witness ==
    /\ ReaderErrors = <<>>
    /\ Len(emitted) = 2
    /\ Replayed = 5
    /\ appends = 2
    /\ EndsWith(file, Fprintf(6, EventPut, Foo, Bar) \o Fprintf(7, EventPut, Foo, Bar))

(***************************************************************************)
(* The HTTP API.  main registers the routes and serves; net/http runs each *)
(* request's handler in a goroutine of its own.  A handler is cut at the   *)
(* operations on the RWMutex: Lock and RLock wait for the mutex, the map   *)
(* is read or written while it is held, and the unlock is taken together   *)
(* with the return and the response the handler writes after it.           *)
(***************************************************************************)
MaxRequests == 3

StatusOK == 200
StatusCreated == 201
StatusNotFound == 404
StatusInternalServerError == 500

ErrorNoSuchKey == <<"N", "o", " ", "s", "u", "c", "h", " ", "k", "e", "y">>

Request(op, key, value) == [op |-> op, key |-> key, value |-> value]

Accept(h, req, pc) ==
    /\ hpc[h] = "idle"
    /\ requests < MaxRequests
    /\ requests' = requests + 1
    /\ hreq' = [hreq EXCEPT ![h] = req]
    /\ hval' = [hval EXCEPT ![h] = NoValue]
    /\ hres' = [hres EXCEPT ![h] = NoResponse]
    /\ hpc' = [hpc EXCEPT ![h] = pc]

\* PUT /v1/key/{key}: the body is read, Put is called.
keyValuePutHandler(h, key, value) ==
    /\ Accept(h, Request("put", key, value), "Put")
    /\ UNCHANGED <<myMap, mu, lastOp, mutations>>
    /\ UNCHANGED <<file, offset, lastSequence, accepted, gen>>
    /\ UNCHANGED writerVars
    /\ UNCHANGED <<ppc, pev, pch, calls>>
    /\ UNCHANGED readerVars

\* io.ReadAll fails: the handler answers 500 and returns.
PutBodyError(h, key) ==
    /\ hpc[h] = "idle"
    /\ requests < MaxRequests
    /\ requests' = requests + 1
    /\ hreq' = [hreq EXCEPT ![h] = Request("put", key, <<>>)]
    /\ hval' = [hval EXCEPT ![h] = NoValue]
    /\ hres' = [hres EXCEPT ![h] = [status |-> StatusInternalServerError, value |-> <<>>]]
    /\ UNCHANGED <<myMap, mu, hpc, lastOp, mutations>>
    /\ UNCHANGED <<file, offset, lastSequence, accepted, gen>>
    /\ UNCHANGED writerVars
    /\ UNCHANGED <<ppc, pev, pch, calls>>
    /\ UNCHANGED readerVars

\* Lock taking the mutex without waiting for its holders.
LockNoWait(h, from, to) ==
    /\ hpc[h] = from
    /\ mu' = [mu EXCEPT !.w = h]
    /\ hpc' = [hpc EXCEPT ![h] = to]
    /\ UNCHANGED <<myMap, hreq, hval, hres, lastOp, requests, mutations>>
    /\ UNCHANGED <<file, offset, lastSequence, accepted, gen>>
    /\ UNCHANGED writerVars
    /\ UNCHANGED <<ppc, pev, pch, calls>>
    /\ UNCHANGED readerVars

\* myMap.Lock(): waits until no goroutine holds the mutex for reading or writing.
Lock(h, from, to) ==
    /\ hpc[h] = from
    /\ mu.w = 0
    /\ mu.r = {}
    /\ mu' = [mu EXCEPT !.w = h]
    /\ hpc' = [hpc EXCEPT ![h] = to]
    /\ UNCHANGED <<myMap, hreq, hval, hres, lastOp, requests, mutations>>
    /\ UNCHANGED <<file, offset, lastSequence, accepted, gen>>
    /\ UNCHANGED writerVars
    /\ UNCHANGED <<ppc, pev, pch, calls>>
    /\ UNCHANGED readerVars

\* myMap.Unlock(), the return of Put or Delete, and the status the handler writes.
Unlock(h, from, status) ==
    /\ hpc[h] = from
    /\ mu' = [mu EXCEPT !.w = 0]
    /\ hres' = [hres EXCEPT ![h] = [status |-> status, value |-> <<>>]]
    /\ mutations' = mutations + 1
    /\ hpc' = [hpc EXCEPT ![h] = "idle"]
    /\ UNCHANGED <<myMap, hreq, hval, lastOp, requests>>
    /\ UNCHANGED <<file, offset, lastSequence, accepted, gen>>
    /\ UNCHANGED writerVars
    /\ UNCHANGED <<ppc, pev, pch, calls>>
    /\ UNCHANGED readerVars

PutLock(h) == Lock(h, "Put", "PutLocked")

\* myMap.m[key] = value
PutAssign(h) ==
    /\ hpc[h] = "PutLocked"
    /\ myMap' = Put(myMap, hreq[h].key, hreq[h].value)
    /\ lastOp' = [lastOp EXCEPT ![hreq[h].key] = hreq[h]]
    /\ hpc' = [hpc EXCEPT ![h] = "PutAssigned"]
    /\ UNCHANGED <<mu, hreq, hval, hres, requests, mutations>>
    /\ UNCHANGED <<file, offset, lastSequence, accepted, gen>>
    /\ UNCHANGED writerVars
    /\ UNCHANGED <<ppc, pev, pch, calls>>
    /\ UNCHANGED readerVars

PutUnlock(h) == Unlock(h, "PutAssigned", StatusCreated)

\* DELETE /v1/key/{key}: Delete is called, its result is not looked at.
keyValueDeleteHandler(h, key) ==
    /\ Accept(h, Request("delete", key, <<>>), "Delete")
    /\ UNCHANGED <<myMap, mu, lastOp, mutations>>
    /\ UNCHANGED <<file, offset, lastSequence, accepted, gen>>
    /\ UNCHANGED writerVars
    /\ UNCHANGED <<ppc, pev, pch, calls>>
    /\ UNCHANGED readerVars

DeleteLock(h) == Lock(h, "Delete", "DeleteLocked")

\* delete(myMap.m, key)
DeleteKey(h) ==
    /\ hpc[h] = "DeleteLocked"
    /\ myMap' = Delete(myMap, hreq[h].key)
    /\ lastOp' = [lastOp EXCEPT ![hreq[h].key] = hreq[h]]
    /\ hpc' = [hpc EXCEPT ![h] = "DeleteDone"]
    /\ UNCHANGED <<mu, hreq, hval, hres, requests, mutations>>
    /\ UNCHANGED <<file, offset, lastSequence, accepted, gen>>
    /\ UNCHANGED writerVars
    /\ UNCHANGED <<ppc, pev, pch, calls>>
    /\ UNCHANGED readerVars

DeleteUnlock(h) == Unlock(h, "DeleteDone", StatusOK)

\* GET /v1/key/{key}: Get is called.
keyValueGetHandler(h, key) ==
    /\ Accept(h, Request("get", key, <<>>), "Get")
    /\ UNCHANGED <<myMap, mu, lastOp, mutations>>
    /\ UNCHANGED <<file, offset, lastSequence, accepted, gen>>
    /\ UNCHANGED writerVars
    /\ UNCHANGED <<ppc, pev, pch, calls>>
    /\ UNCHANGED readerVars

\* myMap.RLock(): waits until no goroutine holds the mutex for writing.
GetRLock(h) ==
    /\ hpc[h] = "Get"
    /\ mu.w = 0
    /\ mu' = [mu EXCEPT !.r = @ \cup {h}]
    /\ hpc' = [hpc EXCEPT ![h] = "GetLocked"]
    /\ UNCHANGED <<myMap, hreq, hval, hres, lastOp, requests, mutations>>
    /\ UNCHANGED <<file, offset, lastSequence, accepted, gen>>
    /\ UNCHANGED writerVars
    /\ UNCHANGED <<ppc, pev, pch, calls>>
    /\ UNCHANGED readerVars

\* value, ok := myMap.m[key]
Get(m, key) ==
    IF key \in DOMAIN m THEN [value |-> m[key], ok |-> TRUE] ELSE NoValue

GetLookup(h) ==
    /\ hpc[h] = "GetLocked"
    /\ hval' = [hval EXCEPT ![h] = Get(myMap, hreq[h].key)]
    /\ hpc' = [hpc EXCEPT ![h] = "GetRead"]
    /\ UNCHANGED <<myMap, mu, hreq, hres, lastOp, requests, mutations>>
    /\ UNCHANGED <<file, offset, lastSequence, accepted, gen>>
    /\ UNCHANGED writerVars
    /\ UNCHANGED <<ppc, pev, pch, calls>>
    /\ UNCHANGED readerVars

\* myMap.RUnlock(), the return of Get, and the response: 404 with the text of
\* ErrorNoSuchKey when ok is false, the value otherwise.
GetRUnlock(h) ==
    /\ hpc[h] = "GetRead"
    /\ mu' = [mu EXCEPT !.r = @ \ {h}]
    /\ hres' = [hres EXCEPT ![h] =
                   IF hval[h].ok THEN [status |-> StatusOK, value |-> hval[h].value]
                   ELSE [status |-> StatusNotFound, value |-> ErrorNoSuchKey]]
    /\ hpc' = [hpc EXCEPT ![h] = "idle"]
    /\ UNCHANGED <<myMap, hreq, hval, lastOp, requests, mutations>>
    /\ UNCHANGED <<file, offset, lastSequence, accepted, gen>>
    /\ UNCHANGED writerVars
    /\ UNCHANGED <<ppc, pev, pch, calls>>
    /\ UNCHANGED readerVars

\* The log file main finds on disk: none, or one written by an earlier run.
StartFiles == {<<>>, Fprintf(1, EventPut, Foo, Bar)}

InitAPI ==
    /\ file \in StartFiles
    /\ NewLogger
    /\ NewServer
    /\ accepted = <<>>
    /\ appends = 0
    /\ failed = 0
    /\ failedAt = 0
    /\ pushed = 0
    /\ gen = 1

NextAPI ==
    \E h \in Handlers :
        \/ \E key \in APIKeys, value \in APIValues : keyValuePutHandler(h, key, value)
        \/ \E key \in APIKeys : PutBodyError(h, key)
        \/ PutLock(h)
        \/ PutAssign(h)
        \/ PutUnlock(h)
        \/ \E key \in APIKeys : keyValueGetHandler(h, key)
        \/ GetRLock(h)
        \/ GetLookup(h)
        \/ GetRUnlock(h)
        \/ \E key \in APIKeys : keyValueDeleteHandler(h, key)
        \/ DeleteLock(h)
        \/ DeleteKey(h)
        \/ DeleteUnlock(h)

SpecAPI == InitAPI /\ [][NextAPI]_vars

\* The number of WritePut and WriteDelete calls issued so far.
RECURSIVE CallsOf(_)
CallsOf(ps) ==
    IF ps = {} THEN 0
    ELSE LET p == CHOOSE q \in ps : TRUE IN calls[p] + CallsOf(ps \ {p})

(***************************************************************************)
(* C13: every mutation is logged.  Each PUT answered 201 and each DELETE   *)
(* answered 200 has invoked WritePut or WriteDelete: the mutations         *)
(* answered never outnumber the logger calls issued.                       *)
(***************************************************************************)
C13_EveryMutationLogged == mutations <= CallsOf(Producers)

\* The events a log of well-formed lines records, and the store they give.
LogEvents(f) == [i \in 1..Len(FileLines(f)) |-> LineEvent(FileLines(f)[i])]

LogState(f) == ApplyEvents(EmptyMap, LogEvents(f))

(***************************************************************************)
(* C14: startup recovery precedes serving.  Once a request has been        *)
(* accepted, the stream of ReadEvents has been drained to its close, and   *)
(* every key no request has written yet holds what the log records.        *)
(***************************************************************************)
C14_RecoveryPrecedesServing ==
    requests > 0 =>
        /\ rpc = "closed"
        /\ \A k \in APIKeys :
               lastOp[k] = NoRequest => Get(myMap, k) = Get(LogState(file), k)

\* The goroutines holding the mutex for a write, for a read of the map.
Writing(h) == hpc[h] \in {"PutLocked", "PutAssigned", "DeleteLocked", "DeleteDone"}

Reading(h) == hpc[h] \in {"GetLocked", "GetRead"}

C18_Exclusive ==
    \A h \in Handlers : Writing(h) =>
        /\ mu.w = h
        /\ \A g \in Handlers \ {h} : ~Writing(g) /\ ~Reading(g)

\* The map holds, per key, what the last Put or Delete on that key left.
C18_LatestPut ==
    \A k \in APIKeys :
        Get(myMap, k) = (IF lastOp[k].op = "put"
                         THEN [value |-> lastOp[k].value, ok |-> TRUE] ELSE NoValue)

\* The answer to a GET: 404 and ErrorNoSuchKey exactly when the key was absent.
C18_Answer ==
    \A h \in Handlers : (hpc[h] = "idle" /\ hreq[h].op = "get") =>
        /\ hres[h].status = (IF hval[h].ok THEN StatusOK ELSE StatusNotFound)
        /\ hval[h].ok => hres[h].value = hval[h].value
        /\ ~hval[h].ok => hres[h].value = ErrorNoSuchKey

\* A PUT is answered 201 and a DELETE 200, whether or not the key was present.
C18_NoError ==
    \A h \in Handlers :
        /\ (hpc[h] = "idle" /\ hreq[h].op = "delete") => hres[h].status = StatusOK
        /\ (hpc[h] = "idle" /\ hreq[h].op = "put")
               => hres[h].status \in {StatusCreated, StatusInternalServerError}

\* Get reads what the last Put or Delete on its key left.
C18_Lookup ==
    \A h \in Handlers : (hpc[h] = "GetLocked" /\ hpc'[h] = "GetRead") =>
        hval'[h] = (IF lastOp[hreq[h].key].op = "put"
                    THEN [value |-> lastOp[hreq[h].key].value, ok |-> TRUE] ELSE NoValue)

\* A key changes only in the one step of a Put or Delete on that key; a Delete
\* of an absent key changes nothing.
C18_OtherKeys ==
    \A k \in APIKeys :
        \/ /\ (k \in DOMAIN myMap) = (k \in DOMAIN myMap')
           /\ k \in DOMAIN myMap => myMap'[k] = myMap[k]
        \/ \E h \in Handlers :
               /\ hreq[h].key = k
               /\ \/ hpc[h] = "PutLocked" /\ hpc'[h] = "PutAssigned"
                  \/ hpc[h] = "DeleteLocked" /\ hpc'[h] = "DeleteDone" /\ k \in DOMAIN myMap

(***************************************************************************)
(* C18: the store is an atomic map under concurrency.  The map is read     *)
(* and written under the mutex only, a writer alone; Get returns the       *)
(* value of the latest Put on its key not followed by a Delete, and 404    *)
(* with ErrorNoSuchKey exactly when the key is absent; Delete of an absent *)
(* key changes nothing and answers 200; Put and Delete leave every other   *)
(* key as it was.                                                          *)
(***************************************************************************)
C18_AtomicMap ==
    /\ [](C18_Exclusive /\ C18_LatestPut /\ C18_Answer /\ C18_NoError)
    /\ [][C18_Lookup]_vars
    /\ [][C18_OtherKeys]_vars

\* A GET answered 404 after a Delete of its key, while the other key still
\* holds the value a Put gave it.
C18_Witness ==
    /\ \E h \in Handlers :
           /\ hpc[h] = "idle"
           /\ hreq[h] = Request("get", Foo, <<>>)
           /\ hres[h].status = StatusNotFound
    /\ lastOp[Foo].op = "delete"
    /\ Get(myMap, Bar) = [value |-> Foo, ok |-> TRUE]

C15_Completed ==
    LET ls == FileLines(file) IN
    (/\ rpc = "closed"
     /\ ~ReadFailed
     /\ Malformed(ls) = {}
     /\ SeqsIncrease(ls, Len(ls)))
        => /\ emitted = [j \in 1..Len(ls) |-> LineEvent(ls[j])]
           /\ ReaderErrors = <<>>
           /\ lastSequence = (IF ls = <<>> THEN 0 ELSE LineEvent(ls[Len(ls)]).Sequence)

C15_Advanced == (rpc = "scan" /\ rpc' = "send") => lastSequence' = re'.Sequence

(***************************************************************************)
(* C15: normal completion of replay.  On a log whose lines are all         *)
(* well-formed, with strictly increasing sequences, the reader emits one   *)
(* event per line in file order with the line's sequence, kind, key and    *)
(* value, moves lastSequence to each emitted sequence, and closes both     *)
(* streams at the end of the file with no error.                           *)
(***************************************************************************)
C15_NormalCompletion == []C15_Completed /\ [][C15_Advanced]_vars

\* A call issued once Run has made the channel can complete exactly when the
\* queue holds fewer than QueueCap events.
C16_Enabled ==
    \A p \in Producers :
        (ppc[p] = "send" /\ pch[p] = "ch")
            => (ENABLED Send(p) <=> Len(events.buf) < QueueCap)

\* The call completes in a step of its own, with room in the queue, that
\* neither writes the file nor moves the consumer.
C16_Completes ==
    \A p \in Producers :
        (ppc[p] = "send" /\ ppc'[p] = "idle")
            => /\ Len(events.buf) < QueueCap
               /\ file' = file
               /\ appends' = appends
               /\ wpc' = wpc

(***************************************************************************)
(* C16: enqueue blocks only on a full queue.  Once Run has been called, a  *)
(* WritePut or WriteDelete call can complete whenever the queue holds      *)
(* fewer than QueueCap events, whether or not its event or any earlier one *)
(* has reached the file, and it is blocked in no other situation.          *)
(***************************************************************************)
C16_BlocksOnlyWhenFull == []C16_Enabled /\ [][C16_Completes]_vars

\* Calls have completed after the append failed, with nothing written, and a
\* further call is in its send with room in the queue.
C16_Witness ==
    /\ failed > 0
    /\ appends = 0
    /\ Len(accepted) > failedAt
    /\ Len(events.buf) < QueueCap
    /\ \E p \in Producers : ppc[p] = "send"

(***************************************************************************)
(* ReadEvents and Run on one logger in any order.  Nothing orders the two  *)
(* goroutines, and both use l.lastSequence without synchronisation, so     *)
(* each of their accesses is a step of its own: the consumer's             *)
(* l.lastSequence++ is a load and a store, the reader's comparison a load  *)
(* and its assignment a store.                                             *)
(***************************************************************************)
MaxLinesOverlap == 1

\* for e := range events { l.lastSequence++ : the load.
DequeueLoad ==
    /\ wpc = "range"
    /\ events.buf # <<>>
    /\ cur' = Head(events.buf)
    /\ events' = [events EXCEPT !.buf = Tail(@)]
    /\ wreg' = lastSequence
    /\ wpc' = "incr"
    /\ UNCHANGED <<file, offset, lastSequence, errors, werr, appends, failed, failedAt,
                   pushed, gen>>
    /\ UNCHANGED producerVars
    /\ UNCHANGED readerVars
    /\ UNCHANGED apiVars

\* l.lastSequence++ : the store.
DequeueStore ==
    /\ wpc = "incr"
    /\ lastSequence' = wreg + 1
    /\ wpc' = "print"
    /\ UNCHANGED <<file, offset, events, errors, cur, werr, wreg, appends, failed,
                   failedAt, pushed, gen>>
    /\ UNCHANGED producerVars
    /\ UNCHANGED readerVars
    /\ UNCHANGED apiVars

\* if l.lastSequence >= e.Sequence : the comparison is false.
ReadCheck ==
    /\ rpc = "scan"
    /\ Filled # <<>>
    /\ Sscanf(Line).err = NoError
    /\ lastSequence < Sscanf(Line).e.Sequence
    /\ re' = Sscanf(Line).e
    /\ rpc' = "assign"
    /\ scanner' = ScanRest(Filled)
    /\ offset' = OffsetAfterScan
    /\ UNCHANGED <<file, lastSequence, outError, emitted, reported, accepted, gen>>
    /\ UNCHANGED writerVars
    /\ UNCHANGED <<ppc, pev, pch, calls>>
    /\ UNCHANGED apiVars

\* l.lastSequence = e.Sequence
ReadAssign ==
    /\ rpc = "assign"
    /\ lastSequence' = re.Sequence
    /\ rpc' = "send"
    /\ UNCHANGED <<file, offset, scanner, re, outError, emitted, reported, accepted, gen>>
    /\ UNCHANGED writerVars
    /\ UNCHANGED <<ppc, pev, pch, calls>>
    /\ UNCHANGED apiVars

InitOverlap ==
    /\ file \in LogFiles(MaxLinesOverlap)
    /\ NewLogger
    /\ NewServer
    /\ accepted = <<>>
    /\ appends = 0
    /\ failed = 0
    /\ failedAt = 0
    /\ pushed = 0
    /\ gen = 1

NextOverlap ==
    \/ ReadEvents
    \/ ReadParseError
    \/ ReadSequenceError
    \/ ReadCheck
    \/ ReadAssign
    \/ ReadEOF
    \/ ReadFailure
    \/ RecvEvent
    \/ RecvError
    \/ Run
    \/ ProduceResume
    \/ \E p \in Producers : Send(p)
    \/ DequeueLoad
    \/ DequeueStore
    \/ FprintfOk
    \/ FprintfFail
    \/ SendErr
    \/ RecvErr

SpecOverlap == InitOverlap /\ [][NextOverlap]_vars

\* The goroutine of ReadEvents, the consumer of Run, between start and end.
ReaderActive == rpc \in {"scan", "assign", "send"}

ConsumerActive == wpc \in {"range", "incr", "print", "err"}

\* The statement of the claim: the two goroutines are never both active.
C17_NeverOverlap == ~(ReaderActive /\ ConsumerActive)

\* A step after which both goroutines are active is a call made out of order:
\* Run while the reader's streams are open, or ReadEvents while the consumer runs.
C17_ByCallOrder ==
    (/\ ~(ReaderActive /\ ConsumerActive)
     /\ rpc' \in {"scan", "assign", "send"}
     /\ wpc' \in {"range", "incr", "print", "err"})
        => \/ ReaderActive /\ wpc = "none" /\ wpc' = "range" /\ rpc' = rpc
           \/ ConsumerActive /\ rpc = "none" /\ rpc' = "scan" /\ wpc' = wpc

\* Neither goroutine starts again once it has ended.
C17_Ended ==
    /\ rpc = "closed" => rpc' = "closed"
    /\ wpc = "exit" => wpc' = "exit"

(***************************************************************************)
(* C17, amended: replay and live writing overlap only through the order of *)
(* the caller's calls.  The reader and the consumer are both active only   *)
(* after Run was called while the reader's streams were open or ReadEvents *)
(* was called while the consumer was running; called in the order          *)
(* ReadEvents, drain to the close, Run, they never are.                    *)
(***************************************************************************)
C17_OverlapOnlyByCallOrder == [][C17_ByCallOrder]_vars /\ [][C17_Ended]_vars

\* The replay has ended with its streams closed and the consumer, started
\* afterwards, has appended a record that continues the replayed sequence.
C17_Witness ==
    /\ rpc = "closed"
    /\ Len(emitted) = 1
    /\ wpc = "range"
    /\ appends = 1
    /\ lastSequence = Replayed + 1

(***************************************************************************)
(* The writer with producers that may call WritePut and WriteDelete before *)
(* Run as well as after it.                                                *)
(***************************************************************************)
ProduceEarly ==
    \E p \in Producers :
        /\ calls[p] < MaxCalls
        /\ \/ \E k \in Keys, v \in Values : WritePut(p, k, v)
           \/ \E k \in Keys : WriteDelete(p, k)

NextEarly ==
    \/ Run
    \/ ProduceEarly
    \/ \E p \in Producers : Send(p)
    \/ Dequeue
    \/ FprintfOk
    \/ FprintfFail
    \/ SendErr
    \/ RecvErr

SpecEarly == Init /\ [][NextEarly]_vars

\* The calls that found l.events nil.
OnNil(p) == ppc[p] = "send" /\ pch[p] = "nil"

\* A call on the nil channel cannot complete, and its event is in no queue and
\* no record: the accepted events are those of the calls that have returned.
C19_Blocked ==
    /\ \A p \in Producers : OnNil(p) => ~ENABLED Send(p)
    /\ Len(accepted) + Cardinality({p \in Producers : ppc[p] = "send"})
           = CallsOf(Producers)
    /\ appends + failed <= Len(accepted)
    /\ \A i \in 1..appends : FileLines(file)[i] = RecordLine(i, accepted[i])
    /\ Len(FileLines(file)) <= appends + failed

\* The call stays where it is in every step, a call of Run included.
C19_Stays ==
    \A p \in Producers :
        OnNil(p) => ppc'[p] = "send" /\ pch'[p] = "nil" /\ pev'[p] = pev[p]

(***************************************************************************)
(* C19: enqueue before start never completes.  A WritePut or WriteDelete   *)
(* call issued before Run waits on the nil channel: it can never complete, *)
(* its event is never queued or appended, and it stays so when Run is      *)
(* called afterwards.                                                      *)
(***************************************************************************)
C19_EnqueueBeforeStart == []C19_Blocked /\ [][C19_Stays]_vars

\* Run was called after the call, another call's event has been written, the
\* queue is empty, and the early call still waits.
C19_Witness ==
    /\ \E p \in Producers : OnNil(p)
    /\ wpc = "range"
    /\ events.buf = <<>>
    /\ appends = 1
    /\ Len(accepted) = 1

(***************************************************************************)
(* The replay with a caller that keeps receiving from outEvent: the        *)
(* goroutine of ReadEvents is scheduled, and a send on outEvent is met by  *)
(* a receive.  Nothing is assumed about outError being read.  The log is   *)
(* any file of up to MaxLinesFair lines.                                   *)
(***************************************************************************)
MaxLinesFair == 2

InitFairReplay ==
    /\ file \in LogFiles(MaxLinesFair)
    /\ NewLogger
    /\ NewServer
    /\ accepted = <<>>
    /\ appends = 0
    /\ failed = 0
    /\ failedAt = 0
    /\ pushed = 0
    /\ gen = 1

ReaderStep == ReadParseError \/ ReadSequenceError \/ ReadNext \/ ReadEOF

FairSpecReplay ==
    InitFairReplay /\ [][Replay]_vars /\ WF_vars(ReaderStep) /\ WF_vars(RecvEvent)

\* At most one error is put on outError, by the step that ends the goroutine,
\* and the buffer has room for it.
C20_OneError ==
    /\ Len(ReaderErrors) <= 1
    /\ rpc \in {"scan", "send"} => ReaderErrors = <<>>
    /\ rpc = "scan" => ENABLED (ReaderStep \/ ReadFailure)

\* In its send on outEvent the goroutine moves only when the caller receives;
\* until then neither stream is closed and nothing is put on outError.
C20_WaitsForReceive ==
    rpc = "send" =>
        \/ rpc' = "send" /\ emitted' = emitted /\ outError' = outError
        \/ rpc' = "scan" /\ emitted' = Append(emitted, re)

(***************************************************************************)
(* C20: reader termination.  While the caller keeps receiving events, the  *)
(* goroutine of ReadEvents ends with both streams closed, at the end of    *)
(* the file and on every error, whether or not outError is ever read; at   *)
(* most one error is put on outError.  A caller that stops receiving       *)
(* leaves the goroutine in its send, with neither stream closed.           *)
(***************************************************************************)
C20_ReaderTermination ==
    /\ (rpc \in {"scan", "send"}) ~> (rpc = "closed")
    /\ []C20_OneError
    /\ [][C20_WaitsForReceive]_vars

\* The goroutine has ended after an event and an error that nobody has read.
C20_Witness ==
    /\ rpc = "closed"
    /\ Len(emitted) = 1
    /\ Len(outError) = 1
    /\ reported = <<>>

=============================================================================
